---- MODULE Spec2Model ----
(***************************************************************************)
(* A model of the greenhouse-gas emission RAG application:                 *)
(*   src/data_processor.py  DataProcessor  (the table store)               *)
(*   src/rag_system.py      RAGSystem      (index + answer pipeline)       *)
(*   src/app.py             the Streamlit script (one run per interaction) *)
(*                                                                         *)
(* Python values are represented as follows.                               *)
(*   str            a TLA+ string                                          *)
(*   a CSV cell     [num |-> n], [str |-> s] or NaN (a missing cell)       *)
(*   a DataFrame    [columns, dtypes, rows], rows being functions from    *)
(*                  column name to cell                                    *)
(*   None           None (for df, rag_system), NoCol (for a column name)   *)
(*   a dict         a function with string keys; {} is the empty function  *)
(*   a float mean   the exact fraction [num |-> sum, den |-> count]        *)
(* An operation that can raise returns a record with a raised field.       *)
(***************************************************************************)
EXTENDS Integers, Sequences, FiniteSets, TLC

VARIABLES
    df,               \* DataProcessor.df
    naics_code_col,   \* DataProcessor.naics_code_col (NoAttr until first set)
    naics_title_col,  \* DataProcessor.naics_title_col
    env,              \* the credentials present in the process environment
    rag_system,       \* the RAGSystem object in use (None when there is none)
    last              \* the last operation: its name, inputs and outcome

vars == <<df, naics_code_col, naics_title_col, env, rag_system, last>>

\* Bounds of the model.
MaxRows == 3
MaxK == 4

None == [py |-> "None"]
NoCol == ""
NoAttr == "<no attribute>"

Range(s) == {s[i] : i \in 1..Len(s)}

(***************************************************************************)
(* Text                                                                    *)
(***************************************************************************)

\* Python's `q in s` on strings.
Contains(s, q) ==
    \E i \in 1..(Len(s) - Len(q) + 1) : SubSeq(s, i, i + Len(q) - 1) = q

LowerChar(c) ==
    CASE c = "A" -> "a" [] c = "B" -> "b" [] c = "C" -> "c" [] c = "D" -> "d"
      [] c = "E" -> "e" [] c = "F" -> "f" [] c = "G" -> "g" [] c = "H" -> "h"
      [] c = "I" -> "i" [] c = "J" -> "j" [] c = "K" -> "k" [] c = "L" -> "l"
      [] c = "M" -> "m" [] c = "N" -> "n" [] c = "O" -> "o" [] c = "P" -> "p"
      [] c = "Q" -> "q" [] c = "R" -> "r" [] c = "S" -> "s" [] c = "T" -> "t"
      [] c = "U" -> "u" [] c = "V" -> "v" [] c = "W" -> "w" [] c = "X" -> "x"
      [] c = "Y" -> "y" [] c = "Z" -> "z" [] OTHER -> c

RECURSIVE Lower(_)
\* str.lower()
Lower(s) ==
    IF s = "" THEN ""
    ELSE LowerChar(SubSeq(s, 1, 1)) \o Lower(SubSeq(s, 2, Len(s)))

(***************************************************************************)
(* Cells, rows and CSV files (the inputs of a load)                        *)
(***************************************************************************)

Num(n) == [num |-> n]
Str(s) == [str |-> s]
NaN == [nan |-> TRUE]
IsNum(c) == "num" \in DOMAIN c
IsStr(c) == "str" \in DOMAIN c
IsNaN(c) == "nan" \in DOMAIN c

ColGHG == "GHG"
ColUnit == "Unit"
ColWithout == "Supply Chain Emission Factors without Margins"
ColMargins == "Margins of Supply Chain Emission Factors"
ColWith == "Supply Chain Emission Factors with Margins"
FactorCols == {ColWithout, ColMargins, ColWith}

\* The header of a well-formed dataset whose NAICS columns carry `year`.
Header(year) ==
    << year \o " NAICS Code", year \o " NAICS Title", ColGHG, ColUnit,
       ColWithout, ColMargins, ColWith >>

Row(year, code, title, without, margins, with) ==
    (year \o " NAICS Code" :> Num(code)) @@ (year \o " NAICS Title" :> Str(title))
    @@ (ColGHG :> Str("CO2")) @@ (ColUnit :> Str("kg/USD"))
    @@ (ColWithout :> without) @@ (ColMargins :> margins) @@ (ColWith :> with)

\* The rows files are made of: two rows share a code, one cell is missing.
RowUniverse(year) ==
    << Row(year, 111110, "Soybean Farming", Num(2), Num(1), Num(3)),
       Row(year, 111110, "Oilseed Farming", Num(4), NaN, Num(4)),
       Row(year, 112111, "Beef Cattle", Num(10), Num(1), Num(11)) >>

\* The same row with its emission factors written as text.
TextRow(r) ==
    [c \in DOMAIN r |-> IF c \in FactorCols THEN Str("n.d.") ELSE r[c]]

RowSeqs(year, lo, hi) ==
    UNION { [1..n -> Range(RowUniverse(year))] : n \in lo..hi }

Csv(header, rows) == [kind |-> "csv", header |-> header, rows |-> rows]

DropCol(header, c) == SelectSeq(header, LAMBDA x : x # c)

Restrict(rows, header) ==
    [i \in 1..Len(rows) |-> [c \in Range(header) |-> rows[i][c]]]

GoodFiles ==
    {Csv(Header("2017"), s) : s \in RowSeqs("2017", 1, MaxRows)}
    \cup {Csv(Header("2017"), [i \in 1..Len(s) |-> TextRow(s[i])]) :
             s \in RowSeqs("2017", 1, MaxRows)}
    \cup {Csv(Header("2022"), s) : s \in RowSeqs("2022", 1, 1)}

BadFiles ==
    { [kind |-> "unreadable", header |-> <<>>, rows |-> <<>>],
      [kind |-> "nochunks", header |-> <<>>, rows |-> <<>>],
      Csv(Header("2017"), <<>>) }
    \cup { Csv(DropCol(Header("2022"), c),
               Restrict(SubSeq(RowUniverse("2022"), 1, 2),
                        DropCol(Header("2022"), c))) :
             c \in Range(Header("2022")) }

Files == GoodFiles \cup BadFiles

(***************************************************************************)
(* DataProcessor (src/data_processor.py)                                   *)
(***************************************************************************)

Min(S) == CHOOSE x \in S : \A y \in S : x <= y

RECURSIVE SumSeq(_)
SumSeq(s) == IF s = <<>> THEN 0 ELSE Head(s) + SumSeq(Tail(s))

\* The dtype pandas infers for a column read from a file of one chunk.
Dtype(rows, c) ==
    IF rows = <<>> THEN "object"
    ELSE IF \A i \in 1..Len(rows) : IsNum(rows[i][c]) THEN "int64"
    ELSE IF \A i \in 1..Len(rows) : IsNum(rows[i][c]) \/ IsNaN(rows[i][c])
         THEN "float64"
    ELSE "object"

IsNumeric(dtype) == dtype \in {"int64", "float64"}

\* chunk.fillna(0) on one cell.
FillCell(c) == IF IsNaN(c) THEN Num(0) ELSE c

\* pd.read_csv(...), fillna(0) on every chunk, pd.concat(chunks): the files of
\* the model are shorter than one chunk of 10000 rows.
ReadFrame(file) ==
    [columns |-> file.header,
     dtypes |-> [c \in Range(file.header) |-> Dtype(file.rows, c)],
     rows |-> [i \in 1..Len(file.rows) |->
                  [c \in Range(file.header) |-> FillCell(file.rows[i][c])]]]

\* next((col for col in columns if sub in col), None)
FirstColumnWith(columns, sub) ==
    LET hits == {i \in 1..Len(columns) : Contains(columns[i], sub)}
    IN IF hits = {} THEN NoCol ELSE columns[Min(hits)]

get_naics_columns(columns) ==
    [code |-> FirstColumnWith(columns, "NAICS Code"),
     title |-> FirstColumnWith(columns, "NAICS Title")]

\* str(x) of a cell of a column of the given dtype.
PyStr(cell, dtype) ==
    IF IsStr(cell) THEN cell.str
    ELSE IF dtype = "float64" THEN ToString(cell.num) \o ".0"
    ELSE ToString(cell.num)

\* self.df[col] = self.df[col].astype(str)
AsTypeStr(frame, col) ==
    [columns |-> frame.columns,
     dtypes |-> [frame.dtypes EXCEPT ![col] = "object"],
     rows |-> [i \in 1..Len(frame.rows) |->
                  [frame.rows[i] EXCEPT
                      ![col] = Str(PyStr(frame.rows[i][col], frame.dtypes[col]))]]]

\* The required columns with 'Unit' forgotten.
RequiredColumnsWithoutUnit(code_col, title_col) ==
    {code_col, title_col, ColGHG, ColWithout, ColMargins, ColWith}

RequiredColumns(code_col, title_col) ==
    {code_col, title_col, ColGHG, ColUnit, ColWithout, ColMargins, ColWith}

\* The two checks that follow the read: the columns, then the row count.
MissingColumns(frame, code_col, title_col) ==
    {c \in RequiredColumns(code_col, title_col) : c \notin Range(frame.columns)}

NoRows(frame) == Len(frame.rows) = 0

\* except Exception: self.df = None; raise
load_data_except(self) ==
    [df |-> None, naics_code_col |-> self.naics_code_col,
     naics_title_col |-> self.naics_title_col, raised |-> TRUE]

\* The try block of load_data on `file`: what it raises or yields, and whether
\* the column attributes were assigned before it ended.
load_data_try(file) ==
    IF file.kind = "unreadable"
    THEN [raised |-> TRUE, assigned |-> FALSE]
    ELSE IF file.kind = "nochunks"
    THEN [raised |-> TRUE, assigned |-> FALSE]
    ELSE
      LET frame == ReadFrame(file)
          cols == get_naics_columns(frame.columns)
      IN IF cols.code = NoCol \/ cols.title = NoCol
         THEN [raised |-> TRUE, assigned |-> FALSE]
         ELSE IF MissingColumns(frame, cols.code, cols.title) # {}
         THEN [raised |-> TRUE, assigned |-> TRUE,
               naics_code_col |-> cols.code, naics_title_col |-> cols.title]
         ELSE IF NoRows(frame)
         THEN [raised |-> TRUE, assigned |-> TRUE,
               naics_code_col |-> cols.code, naics_title_col |-> cols.title]
         ELSE [raised |-> FALSE, assigned |-> TRUE,
               df |-> AsTypeStr(frame, cols.code),
               naics_code_col |-> cols.code, naics_title_col |-> cols.title]

\* The files of the model, each with the outcome of load_data's try block.
IndexFiles ==
    {Csv(Header("2017"), [i \in 1..n |-> RowUniverse("2017")[((i - 1) % 3) + 1]]) :
        n \in 1..MaxRows}
    \cup {Csv(DropCol(Header("2017"), ColUnit), <<>>)}

TryOutcome == [file \in Files \cup IndexFiles |-> load_data_try(file)]

\* load_data once its try block has ended with outcome t.
load_data_end(self, t) ==
    IF t.raised
    THEN load_data_except(IF t.assigned
                          THEN [df |-> self.df,
                                naics_code_col |-> t.naics_code_col,
                                naics_title_col |-> t.naics_title_col]
                          ELSE self)
    ELSE [df |-> t.df, naics_code_col |-> t.naics_code_col,
          naics_title_col |-> t.naics_title_col, raised |-> FALSE]

\* DataProcessor.load_data with self.csv_path naming `file`.
load_data(self, file) == load_data_end(self, TryOutcome[file])

\* load_from_upload once load_data has returned or raised (result r).
load_from_upload_end(r) ==
    [df |-> r.df, naics_code_col |-> r.naics_code_col,
     naics_title_col |-> r.naics_title_col, ret |-> ~r.raised]

\* DataProcessor.load_from_upload: the upload is first copied to a temporary
\* file (writeOk: the copy could be written), then load_data reads the copy.
load_from_upload(self, file, writeOk) ==
    IF ~writeOk
    THEN [df |-> self.df, naics_code_col |-> self.naics_code_col,
          naics_title_col |-> self.naics_title_col, ret |-> FALSE]
    ELSE load_from_upload_end(load_data(self, file))

\* self.df[...] and self.naics_code_col fault when there is no table.
NoTable(self) == self.df = None \/ self.naics_code_col = NoAttr

\* The selection of rows with the comparison of codes left out.
RowsOfAnyCode(frame, code_col, code) == frame.rows

RowsWithCode(frame, code_col, code) ==
    SelectSeq(frame.rows, LAMBDA r : r[code_col].str = code)

get_emission_factors(self, naics_code) ==
    IF naics_code # ""
    THEN IF NoTable(self)
         THEN [raised |-> TRUE, ret |-> None]
         ELSE [raised |-> FALSE,
               ret |-> [self.df EXCEPT
                          !.rows = RowsWithCode(self.df, self.naics_code_col,
                                                naics_code)]]
    ELSE [raised |-> FALSE, ret |-> self.df]

ColumnValues(rows, c) == [i \in 1..Len(rows) |-> rows[i][c].num]

\* Series.mean() as the exact fraction sum / count.
Mean(values) == [num |-> SumSeq(values), den |-> Len(values)]

\* DataFrame.describe() of one column: count, mean, min, max (std and the
\* quartiles are not represented).
Describe(values) ==
    [count |-> Len(values), mean |-> Mean(values),
     min |-> Min(Range(values)),
     max |-> CHOOSE x \in Range(values) : \A y \in Range(values) : y <= x]

NumericNonNaics(frame) ==
    SelectSeq(frame.columns,
              LAMBDA c : IsNumeric(frame.dtypes[c]) /\ ~Contains(c, "NAICS"))

\* int(self.df[self.naics_code_col].nunique())
NUnique(frame, col) == Cardinality({frame.rows[i][col] : i \in 1..Len(frame.rows)})

get_emission_summary(self) ==
    IF self.df = None
    THEN [total_records |-> 0, unique_naics |-> 0, emission_stats |-> <<>>]
    ELSE
      LET numeric_cols == NumericNonNaics(self.df)
      IN IF numeric_cols = <<>>
         \* describe() of a frame without columns raises ValueError
         THEN [total_records |-> 0, unique_naics |-> 0, emission_stats |-> <<>>,
               error |-> "Cannot describe a DataFrame without columns"]
         ELSE [total_records |-> Len(self.df.rows),
               unique_naics |-> NUnique(self.df, self.naics_code_col),
               emission_stats |->
                   [c \in Range(numeric_cols) |->
                       Describe(ColumnValues(self.df.rows, c))],
               columns |-> [naics_code_col |-> self.naics_code_col,
                            naics_title_col |-> self.naics_title_col,
                            numeric_cols |-> numeric_cols]]

\* str.contains(query, case=False) for a query without regex metacharacters.
ContainsNoCase(text, query) == Contains(Lower(text), Lower(query))

search_naics(self, query) ==
    IF NoTable(self) THEN [raised |-> TRUE, ret |-> <<>>]
    ELSE IF self.df.dtypes[self.naics_title_col] # "object"
    THEN [raised |-> TRUE, ret |-> <<>>]
    ELSE
      LET q == Lower(query)
          code(r) == PyStr(r[self.naics_code_col], "object")
          title(r) == PyStr(r[self.naics_title_col], "object")
          matches == SelectSeq(self.df.rows,
                         LAMBDA r : \/ ContainsNoCase(code(r), q)
                                    \/ ContainsNoCase(Lower(title(r)), q))
      IN [raised |-> FALSE,
          ret |-> [i \in 1..Len(matches) |-> <<code(matches[i]), title(matches[i])>>]]

get_emission_trends(self, naics_code) ==
    IF NoTable(self) THEN [raised |-> TRUE, ret |-> <<>>]
    ELSE
      LET naics_data == RowsWithCode(self.df, self.naics_code_col, naics_code)
          numeric == {c \in Range(self.df.columns) : IsNumeric(self.df.dtypes[c])}
      IN IF naics_data = <<>>
         THEN [raised |-> FALSE, ret |-> <<>>]
         ELSE [raised |-> FALSE,
               ret |-> [naics_code |-> naics_code,
                        description |-> naics_data[1][self.naics_title_col].str,
                        emission_factors |->
                            [c \in numeric |-> Mean(ColumnValues(naics_data, c))]]]

(***************************************************************************)
(* The DataProcessor used on its own: loads and queries in any order.      *)
(***************************************************************************)

Credentials == {"IBM_API_KEY", "IBM_CLOUD_URL", "IBM_PROJECT_ID"}

Self == [df |-> df, naics_code_col |-> naics_code_col,
         naics_title_col |-> naics_title_col]

\* Inputs of the queries.
CodeInputs == {"111110", "112111", "999999"}
SearchInputs == {"farm", "FARM", "1111", "zzz"}

\* DataProcessor(): no table, and the column attributes do not exist yet.
InitData ==
    /\ df = None
    /\ naics_code_col = NoAttr
    /\ naics_title_col = NoAttr
    /\ env = {}
    /\ rag_system = None
    /\ last = [op |-> "init"]

\* self.csv_path = <file>; self.load_data()
LoadData ==
    \E file \in Files :
      LET r == load_data(Self, file)
      IN /\ df' = r.df
         /\ naics_code_col' = r.naics_code_col
         /\ naics_title_col' = r.naics_title_col
         /\ last' = [op |-> "load_data", failed |-> r.raised,
                     had_table |-> df # None]
         /\ UNCHANGED <<env, rag_system>>

LoadFromUpload ==
    \E file \in Files, writeOk \in BOOLEAN :
      LET r == load_from_upload(Self, file, writeOk)
      IN /\ df' = r.df
         /\ naics_code_col' = r.naics_code_col
         /\ naics_title_col' = r.naics_title_col
         /\ last' = [op |-> "load_from_upload", failed |-> ~r.ret,
                     had_table |-> df # None]
         /\ UNCHANGED <<env, rag_system>>

GetEmissionFactors ==
    \E code \in CodeInputs \cup {""} :
      /\ last' = [op |-> "get_emission_factors", arg |-> code]
                   @@ get_emission_factors(Self, code)
      /\ UNCHANGED <<df, naics_code_col, naics_title_col, env, rag_system>>

GetEmissionSummary ==
    /\ last' = [op |-> "get_emission_summary", raised |-> FALSE,
                ret |-> get_emission_summary(Self)]
    /\ UNCHANGED <<df, naics_code_col, naics_title_col, env, rag_system>>

SearchNaics ==
    \E query \in SearchInputs :
      /\ last' = [op |-> "search_naics", arg |-> query] @@ search_naics(Self, query)
      /\ UNCHANGED <<df, naics_code_col, naics_title_col, env, rag_system>>

GetEmissionTrends ==
    \E code \in CodeInputs :
      /\ last' = [op |-> "get_emission_trends", arg |-> code]
                   @@ get_emission_trends(Self, code)
      /\ UNCHANGED <<df, naics_code_col, naics_title_col, env, rag_system>>

NextData ==
    \/ LoadData
    \/ LoadFromUpload
    \/ GetEmissionFactors
    \/ GetEmissionSummary
    \/ SearchNaics
    \/ GetEmissionTrends

SpecData == InitData /\ [][NextData]_vars

(***************************************************************************)
(* RAGSystem (src/rag_system.py)                                           *)
(*                                                                         *)
(* A RAGSystem object is [vector_store, qa_chain, creds, table]:            *)
(* vector_store is None or the FAISS index [docs |-> the indexed texts],   *)
(* qa_chain tells whether the hosted-model chain was created; creds and    *)
(* table record the credentials setup_rag found and the frame it read      *)
(* (history kept for the properties; the code does not store them).  The   *)
(* embedding model, FAISS and the hosted model are external: each call of  *)
(* them is an input of the operation, either its failure or its result.    *)
(***************************************************************************)

RetrieverK == 4
DefaultK == 3

\* f"{row[col]}" for a cell of a column of the given dtype.
Field(frame, row, col) == PyStr(row[col], frame.dtypes[col])

\* The text of one row (KeyError when a column is missing: the row is skipped).
Document(frame, row, code_col, title_col) ==
    "NAICS Code: " \o Field(frame, row, code_col) \o "\n"
    \o "Title: " \o Field(frame, row, title_col) \o "\n"
    \o "GHG: " \o Field(frame, row, ColGHG) \o "\n"
    \o "Unit: " \o Field(frame, row, ColUnit) \o "\n"
    \o ColWithout \o ": " \o Field(frame, row, ColWithout) \o "\n"
    \o ColMargins \o ": " \o Field(frame, row, ColMargins) \o "\n"
    \o ColWith \o ": " \o Field(frame, row, ColWith) \o "\n"

Documents(self) ==
    LET frame == self.df
        complete == RequiredColumns(self.naics_code_col, self.naics_title_col)
                        \subseteq Range(frame.columns)
    IN IF complete
       THEN [i \in 1..Len(frame.rows) |->
                Document(frame, frame.rows[i], self.naics_code_col,
                         self.naics_title_col)]
       ELSE <<>>

\* any(...) where the code says all(...).
AnyCredential(environment) == environment \cap Credentials # {}

\* all([api_key, cloud_url, project_id])
AllCredentials(environment) == Credentials \subseteq environment

\* RAGSystem.__init__ and setup_rag on data processor `self`.  buildOk: the
\* embedding model loads and FAISS.from_texts succeeds; modelOk: the
\* watsonx.ai model and the RetrievalQA chain can be created.
setup_rag(self, environment, buildOk, modelOk) ==
    IF ~buildOk \/ self.df = None
    THEN [raised |-> TRUE]
    ELSE LET documents == Documents(self)
         IN IF documents = <<>>
            THEN [raised |-> TRUE]
            ELSE [raised |-> FALSE,
                  obj |-> [vector_store |-> [docs |-> documents],
                           qa_chain |-> AllCredentials(environment) /\ modelOk,
                           creds |-> environment, table |-> self.df]]

Smaller(a, b) == IF a < b THEN a ELSE b

\* vector_store.similarity_search(question, k=k): the k nearest texts, nearest
\* first, or all of them when the index holds fewer.  rank is the order of
\* the indexed texts by distance to the question (a permutation of their
\* positions), ok tells whether the call succeeds.
similarity_search(store, k, rank, ok) ==
    IF ~ok THEN [raised |-> TRUE, ret |-> <<>>]
    ELSE [raised |-> FALSE,
          ret |-> [i \in 1..Smaller(k, Len(store.docs)) |-> store.docs[rank[i]]]]

RECURSIVE Join(_)
Join(texts) == IF texts = <<>> THEN "" ELSE Head(texts) \o "\n" \o Join(Tail(texts))

\* The text the hosted model generates for a question and its context.
Answer(question, context) ==
    "Answer to <" \o question \o "> from:\n" \o Join(context)

\* self.qa_chain.run(question): the chain's retriever fetches its own
\* RetrieverK texts and one generation call answers from them.
qa_chain_run(store, question, rank, llmOk) ==
    IF ~llmOk THEN [raised |-> TRUE, ret |-> ""]
    ELSE [raised |-> FALSE,
          ret |-> Answer(question, similarity_search(store, RetrieverK, rank, TRUE).ret)]

\* The try block of query.
query_try(rag, question, k, rank, llmOk, searchOk) ==
    IF rag.qa_chain
    THEN LET r == qa_chain_run(rag.vector_store, question, rank, llmOk)
         IN [raised |-> r.raised, ret |-> <<r.ret>>,
             hosted_calls |-> 1, searches |-> 0]
    ELSE LET r == similarity_search(rag.vector_store, k, rank, searchOk)
         IN [raised |-> r.raised, ret |-> r.ret,
             hosted_calls |-> 0, searches |-> 1]

\* The except block of query without its inner try: a failing search raises.
query_except_unguarded(rag, question, k, rank, retryOk) ==
    LET r == similarity_search(rag.vector_store, k, rank, retryOk)
    IN [raised |-> r.raised, ret |-> r.ret, path |-> "search"]

\* The except block of query: one more search, and a message if it fails too.
query_except(rag, question, k, rank, retryOk) ==
    LET r == similarity_search(rag.vector_store, k, rank, retryOk)
    IN IF r.raised
       THEN [raised |-> FALSE, ret |-> <<"Error processing query: search failed">>,
             path |-> "error"]
       ELSE [raised |-> FALSE, ret |-> r.ret, path |-> "search"]

\* RAGSystem.query(question, k).  The result also tells which path produced
\* it and how often the hosted model and the index were called.
query(rag, question, k, rank, llmOk, searchOk, retryOk) ==
    IF rag.vector_store = None
    THEN [raised |-> FALSE, ret |-> <<"Error: RAG system not properly initialized">>,
          path |-> "uninitialized", hosted_calls |-> 0, searches |-> 0]
    ELSE LET t == query_try(rag, question, k, rank, llmOk, searchOk)
         IN IF t.raised
            THEN query_except(rag, question, k, rank, retryOk)
                   @@ [hosted_calls |-> t.hosted_calls, searches |-> t.searches + 1]
            ELSE [raised |-> FALSE, ret |-> t.ret,
                  path |-> IF rag.qa_chain THEN "hosted" ELSE "search",
                  hosted_calls |-> t.hosted_calls, searches |-> t.searches]

\* get_similar_documents with k not passed on to the search.
get_similar_documents_default_k(rag, k, rank, searchOk) ==
    IF rag.vector_store = None
    THEN [raised |-> FALSE,
          ret |-> << [error |-> "RAG system not properly initialized"] >>]
    ELSE LET r == similarity_search(rag.vector_store, DefaultK, rank, searchOk)
         IN IF r.raised
            THEN [raised |-> FALSE, ret |-> << [error |-> "search failed"] >>]
            ELSE [raised |-> FALSE,
                  ret |-> [i \in 1..Len(r.ret) |->
                              [content |-> r.ret[i], metadata |-> <<>>]]]

\* RAGSystem.get_similar_documents(query, k): {"content", "metadata"} per
\* text (from_texts stores no metadata) or one {"error"} entry.
get_similar_documents(rag, k, rank, searchOk) ==
    IF rag.vector_store = None
    THEN [raised |-> FALSE,
          ret |-> << [error |-> "RAG system not properly initialized"] >>]
    ELSE LET r == similarity_search(rag.vector_store, k, rank, searchOk)
         IN IF r.raised
            THEN [raised |-> FALSE, ret |-> << [error |-> "search failed"] >>]
            ELSE [raised |-> FALSE,
                  ret |-> [i \in 1..Len(r.ret) |->
                              [content |-> r.ret[i], metadata |-> <<>>]]]

(***************************************************************************)
(* The RAGSystem used on its own: a data processor is loaded, RAGSystem    *)
(* objects are constructed from it and queried, the environment changes.   *)
(***************************************************************************)

\* The orders in which an index of n texts can be ranked for a question.
Ranks(n) == {[i \in 1..n |-> ((i - 1 + r) % n) + 1] : r \in 0..(n - 1)}

Question == "Which sector emits most?"

InitRag ==
    /\ df = None
    /\ naics_code_col = NoAttr
    /\ naics_title_col = NoAttr
    /\ env \in SUBSET Credentials
    /\ rag_system = None
    /\ last = [op |-> "init"]

UploadIndexFile ==
    \E file \in IndexFiles, writeOk \in BOOLEAN :
      LET r == load_from_upload(Self, file, writeOk)
      IN /\ df' = r.df
         /\ naics_code_col' = r.naics_code_col
         /\ naics_title_col' = r.naics_title_col
         /\ last' = [op |-> "load_from_upload", failed |-> ~r.ret,
                     had_table |-> df # None]
         /\ UNCHANGED <<env, rag_system>>

\* load_dotenv(): the variables of the .env file that the environment lacks
\* are added to it.
LoadDotenv ==
    /\ env # Credentials
    /\ env' = Credentials
    /\ last' = [op |-> "load_dotenv"]
    /\ UNCHANGED <<df, naics_code_col, naics_title_col, rag_system>>

\* rag_system = RAGSystem(data_processor): when the constructor raises the
\* assignment does not happen.
NewRAGSystem ==
    \E buildOk \in BOOLEAN, modelOk \in BOOLEAN :
      LET r == setup_rag(Self, env, buildOk, modelOk)
      IN /\ rag_system' = IF r.raised THEN rag_system ELSE r.obj
         /\ last' = [op |-> "RAGSystem", raised |-> r.raised]
         /\ UNCHANGED <<df, naics_code_col, naics_title_col, env>>

Query ==
    /\ rag_system # None
    /\ \E k \in 0..MaxK, rank \in Ranks(Len(rag_system.vector_store.docs)),
          llmOk \in BOOLEAN, searchOk \in BOOLEAN, retryOk \in BOOLEAN :
         last' = [op |-> "query", k |-> k, rank |-> rank, llmOk |-> llmOk,
                  searchOk |-> searchOk, retryOk |-> retryOk]
                   @@ query(rag_system, Question, k, rank, llmOk, searchOk, retryOk)
    /\ UNCHANGED <<df, naics_code_col, naics_title_col, env, rag_system>>

GetSimilarDocuments ==
    /\ rag_system # None
    /\ \E k \in 0..MaxK, rank \in Ranks(Len(rag_system.vector_store.docs)),
          searchOk \in BOOLEAN :
         last' = [op |-> "get_similar_documents", k |-> k, rank |-> rank,
                  searchOk |-> searchOk]
                   @@ get_similar_documents(rag_system, k, rank, searchOk)
    /\ UNCHANGED <<df, naics_code_col, naics_title_col, env, rag_system>>

NextRag ==
    \/ UploadIndexFile
    \/ LoadDotenv
    \/ NewRAGSystem
    \/ Query
    \/ GetSimilarDocuments

SpecRag == InitRag /\ [][NextRag]_vars

(***************************************************************************)
(* The application (src/app.py).  Streamlit runs the script from top to    *)
(* bottom on every interaction; st.session_state (data_processor,          *)
(* rag_system) is what survives from one run to the next.  One action is   *)
(* one run: load_dotenv, the upload block, then the selected page.         *)
(***************************************************************************)

NoFile == [kind |-> "none"]

\* What the uploader holds in a run and how the external calls of the upload
\* block behave: no file, a file whose temporary copy cannot be written, or
\* a file that is read.  buildOk and modelOk are inputs only of the runs
\* that construct a RAGSystem.
UploadInputs(environment) ==
    {[file |-> NoFile, writeOk |-> TRUE, buildOk |-> TRUE, modelOk |-> TRUE]}
    \cup {[file |-> f, writeOk |-> FALSE, buildOk |-> TRUE, modelOk |-> TRUE] :
             f \in IndexFiles}
    \cup UNION {
           LET constructs == AllCredentials(environment) /\ ~TryOutcome[f].raised
           IN {[file |-> f, writeOk |-> TRUE, buildOk |-> b, modelOk |-> m] :
                 b \in IF constructs THEN BOOLEAN ELSE {TRUE},
                 m \in IF constructs THEN BOOLEAN ELSE {TRUE}} :
           f \in IndexFiles }

DataProcessorOf(r) ==
    [df |-> r.df, naics_code_col |-> r.naics_code_col,
     naics_title_col |-> r.naics_title_col]

\* Lines 43-47, after a successful load: c is the outcome of RAGSystem(...).
construct_block(self, rag, c) ==
    [self |-> self, rag |-> IF c.raised THEN rag ELSE c.obj,
     uploaded |-> TRUE, loaded |-> TRUE, crashed |-> c.raised]

\* Lines 43-47: a RAGSystem is constructed only with all three credentials.
loaded_block(self, rag, environment, up) ==
    IF AllCredentials(environment)
    THEN construct_block(self, rag, setup_rag(self, environment, up.buildOk, up.modelOk))
    ELSE [self |-> self, rag |-> rag, uploaded |-> TRUE, loaded |-> TRUE,
          crashed |-> FALSE]

\* Lines 41-49, r being what load_from_upload left and returned.
after_load(rag, environment, up, r) ==
    IF ~r.ret
    THEN [self |-> DataProcessorOf(r), rag |-> rag, uploaded |-> TRUE,
          loaded |-> FALSE, crashed |-> FALSE]
    ELSE loaded_block(DataProcessorOf(r), rag, environment, up)

\* Lines 40-49: the session after the upload block.  crashed: RAGSystem(...)
\* raised, which ends the run.
upload_block(self, rag, environment, up) ==
    IF up.file = NoFile
    THEN [self |-> self, rag |-> rag, uploaded |-> FALSE, loaded |-> FALSE,
          crashed |-> FALSE]
    ELSE after_load(rag, environment, up,
                    load_from_upload(self, up.file, up.writeOk))

\* Lines 79-90: the response is written, then the related texts; an entry
\* without "content" raises KeyError, which the page reports.
response_block(response, similar) ==
    [shown |-> "response", response |-> response.ret, path |-> response.path,
     related |-> IF \E i \in 1..Len(similar) : "content" \notin DOMAIN similar[i]
                 THEN <<>>
                 ELSE [i \in 1..Len(similar) |-> similar[i].content],
     error |-> \E i \in 1..Len(similar) : "content" \notin DOMAIN similar[i]]

\* Lines 55-90: what the Query System page shows.
query_page(rag, environment, asked, rank, llmOk, searchOk) ==
    IF rag = None
    THEN [shown |-> IF ~AllCredentials(environment)
                    THEN "credentials warning" ELSE "upload warning"]
    ELSE IF ~asked
    THEN [shown |-> "form"]
    ELSE response_block(
           query(rag, Question, DefaultK, rank, llmOk, searchOk, searchOk),
           get_similar_documents(rag, DefaultK, rank, searchOk).ret)

\* Lines 92-157: what the Data Analysis page shows.
data_analysis_page(self, search_query, naics_code) ==
    IF self.df = None
    THEN [shown |-> "upload warning"]
    ELSE [shown |-> "analysis",
          summary |-> get_emission_summary(self),
          results |-> IF search_query # ""
                      THEN search_naics(self, search_query).ret ELSE <<>>,
          trends |-> IF naics_code # ""
                     THEN get_emission_trends(self, naics_code).ret ELSE <<>>]

\* The session starts with DataProcessor() and no rag_system.
Init ==
    /\ df = None
    /\ naics_code_col = NoAttr
    /\ naics_title_col = NoAttr
    /\ env \in SUBSET Credentials
    /\ rag_system = None
    /\ last = [op |-> "init"]

\* The part of a run every page shares: the session and the environment
\* after load_dotenv and the upload block.
AfterUpload(up, dotenv) ==
    [env |-> IF dotenv THEN Credentials ELSE env,
     s |-> upload_block(Self, rag_system, IF dotenv THEN Credentials ELSE env, up)]

\* The end of a run that showed `shown`: what it leaves in the session.
Finish(name, a, faults, shown) ==
    /\ env' = a.env
    /\ df' = a.s.self.df
    /\ naics_code_col' = a.s.self.naics_code_col
    /\ naics_title_col' = a.s.self.naics_title_col
    /\ rag_system' = a.s.rag
    /\ last' = [op |-> "run", page |-> name, uploaded |-> a.s.uploaded,
                loaded |-> a.s.loaded, crashed |-> a.s.crashed, faults |-> faults]
                 @@ (IF a.s.crashed THEN [shown |-> "exception"] ELSE shown)

\* The inputs of the Query System page: the question form exists only when
\* there is a rag_system, the external calls only when a question is asked.
QuerySystem(up, a) ==
    \E asked \in IF ~a.s.crashed /\ a.s.rag # None THEN BOOLEAN ELSE {FALSE} :
    \E llmOk \in IF asked /\ a.s.rag.qa_chain THEN BOOLEAN ELSE {TRUE} :
    \E searchOk \in IF asked THEN BOOLEAN ELSE {TRUE} :
    \E rank \in IF asked THEN Ranks(Len(a.s.rag.vector_store.docs)) ELSE {<<>>} :
      Finish("Query System", a,
             ~up.buildOk \/ ~up.modelOk \/ ~llmOk \/ ~searchOk,
             query_page(a.s.rag, a.env, asked, rank, llmOk, searchOk))

DataAnalysis(up, a) ==
    \E search_query \in {"", "farm"}, naics_code \in {"", "111110", "999999"} :
      Finish("Data Analysis", a, ~up.buildOk \/ ~up.modelOk,
             data_analysis_page(a.s.self, search_query, naics_code))

RunQuerySystem ==
    \E dotenv \in BOOLEAN :
    \E up \in UploadInputs(IF dotenv THEN Credentials ELSE env) :
      QuerySystem(up, AfterUpload(up, dotenv))

RunDataAnalysis ==
    \E dotenv \in BOOLEAN :
    \E up \in UploadInputs(IF dotenv THEN Credentials ELSE env) :
      DataAnalysis(up, AfterUpload(up, dotenv))

RunAbout ==
    \E dotenv \in BOOLEAN :
    \E up \in UploadInputs(IF dotenv THEN Credentials ELSE env) :
      Finish("About", AfterUpload(up, dotenv), ~up.buildOk \/ ~up.modelOk,
             [shown |-> "about"])

Next ==
    \/ RunQuerySystem
    \/ RunDataAnalysis
    \/ RunAbout

Spec == Init /\ [][Next]_vars

(***************************************************************************)
(* Properties of the DataProcessor (checked under SpecData)                *)
(***************************************************************************)

Loads == {"load_data", "load_from_upload"}
TableQueries == {"search_naics", "get_emission_summary", "get_emission_trends",
                 "get_emission_factors"}

\* C2: a query operation invoked while no table or index is loaded returns
\* an empty or explicit-message result and never ends in a fault.
C2_NoFaultWithoutTable ==
    /\ (last.op \in TableQueries /\ df = None) => ~last.raised
    /\ (last.op \in {"query", "get_similar_documents"}
          /\ rag_system.vector_store = None)
         => (~last.raised /\ Len(last.ret) = 1)

\* C3: a load that fails, for whatever cause and whether or not a table was
\* held before, leaves the store without a table.
C3_FailedLoadLeavesNoTable ==
    (last.op \in Loads /\ last.failed) => df = None

\* C7: a table held after a load has at least one row, its recorded code and
\* title columns are columns of it whose names contain 'NAICS Code' and
\* 'NAICS Title', and it has the GHG, Unit and three emission-factor
\* columns; a load that reports success holds such a table.
C7_HeldTableIsValid ==
    /\ df # None =>
         /\ Len(df.rows) >= 1
         /\ naics_code_col \in Range(df.columns)
         /\ Contains(naics_code_col, "NAICS Code")
         /\ naics_title_col \in Range(df.columns)
         /\ Contains(naics_title_col, "NAICS Title")
         /\ {"GHG", "Unit", "Supply Chain Emission Factors without Margins",
             "Margins of Supply Chain Emission Factors",
             "Supply Chain Emission Factors with Margins"}
              \subseteq Range(df.columns)
    /\ (last.op \in Loads /\ ~last.failed) => df # None

C7_Witness ==
    /\ last.op = "load_from_upload"
    /\ ~last.failed
    /\ last.had_table
    /\ df # None
    /\ naics_code_col = "2022 NAICS Code"

\* The positions of the rows of the held table whose code is exactly `code`.
RowsHaving(code) ==
    {i \in 1..Len(df.rows) : df.rows[i][naics_code_col] = [str |-> code]}

RECURSIVE SumAt(_, _)
\* The sum of column c over the rows at the positions S of the held table.
SumAt(S, c) ==
    IF S = {} THEN 0
    ELSE LET i == CHOOSE j \in S : TRUE
         IN df.rows[i][c].num + SumAt(S \ {i}, c)

\* C8: on a loaded table get_emission_trends(code) returns an empty result
\* when no row has exactly that code; otherwise the code, the title of the
\* first such row, and per numeric column the mean over exactly those rows.
C8_TrendsAreMeansOfMatchingRows ==
    (last.op = "get_emission_trends" /\ df # None) =>
      /\ ~last.raised
      /\ IF RowsHaving(last.arg) = {}
         THEN DOMAIN last.ret = {}
         ELSE /\ last.ret.naics_code = last.arg
              /\ last.ret.description
                   = df.rows[Min(RowsHaving(last.arg))][naics_title_col].str
              /\ DOMAIN last.ret.emission_factors
                   = {c \in Range(df.columns) : df.dtypes[c] \in {"int64", "float64"}}
              /\ \A c \in DOMAIN last.ret.emission_factors :
                   /\ last.ret.emission_factors[c].den
                        = Cardinality(RowsHaving(last.arg))
                   /\ last.ret.emission_factors[c].num
                        = SumAt(RowsHaving(last.arg), c)

\* The table with codes 111110, 111110, 112111 and factors 2, 4, 10: the mean
\* for 111110 is 3.
C8_Witness ==
    /\ last.op = "get_emission_trends"
    /\ last.arg = "111110"
    /\ df # None
    /\ Len(df.rows) = 3
    /\ [i \in 1..3 |-> df.rows[i][naics_code_col].str]
         = <<"111110", "111110", "112111">>
    /\ df.dtypes[ColWithout] = "int64"
    /\ [i \in 1..3 |-> df.rows[i][ColWithout].num] = <<2, 4, 10>>
    /\ last.ret.emission_factors[ColWithout].num
         = 3 * last.ret.emission_factors[ColWithout].den
    /\ last.ret.description = "Soybean Farming"

\* C9: get_emission_summary reports the number of rows and the number of
\* distinct codes of the loaded table, and zeros and empty statistics when
\* no table is loaded.
C9_SummaryCounts ==
    last.op = "get_emission_summary" =>
      IF df = None
      THEN /\ last.ret.total_records = 0
           /\ last.ret.unique_naics = 0
           /\ DOMAIN last.ret.emission_stats = {}
      ELSE /\ last.ret.total_records = Len(df.rows)
           /\ last.ret.unique_naics
                = Cardinality({df.rows[i][naics_code_col].str : i \in 1..Len(df.rows)})

(***************************************************************************)
(* Properties of the RAGSystem (checked under SpecRag)                     *)
(***************************************************************************)

IndexSize == Len(rag_system.vector_store.docs)

\* The k texts nearest to the last question, in the order of its ranking.
Nearest(k) ==
    [i \in 1..(IF k < IndexSize THEN k ELSE IndexSize) |->
        rag_system.vector_store.docs[last.rank[i]]]

IsErrorList(ret) == Len(ret) = 1 /\ Contains(ret[1], "Error")

\* C1: with the index initialized, query never raises and returns a list of
\* strings; a failing hosted-model call is caught and the result is the
\* documents of the similarity search, and when that search fails as well
\* the result is a one-element list carrying an error message.
C1_QueryNeverRaises ==
    (last.op = "query" /\ rag_system.vector_store # None) =>
      /\ ~last.raised
      /\ \A i \in 1..Len(last.ret) : last.ret[i] \in STRING
      /\ (rag_system.qa_chain /\ ~last.llmOk /\ last.retryOk)
           => last.ret = Nearest(last.k)
      /\ (rag_system.qa_chain /\ ~last.llmOk /\ ~last.retryOk)
           => IsErrorList(last.ret)
      /\ (~rag_system.qa_chain /\ ~last.searchOk /\ ~last.retryOk)
           => IsErrorList(last.ret)

C1_Witness ==
    /\ last.op = "query"
    /\ rag_system.qa_chain
    /\ ~last.llmOk
    /\ last.retryOk
    /\ last.k = 2
    /\ Len(last.ret) = 2
    /\ last.hosted_calls = 1

\* C6: a RAGSystem constructed while a credential was absent never has a
\* qa_chain, whatever the environment holds later, and each of its queries
\* is served by the similarity search without a call of the hosted model.
C6_NoCredentialsNoHostedModel ==
    (rag_system # None /\ rag_system.creds # Credentials) =>
      /\ ~rag_system.qa_chain
      /\ last.op = "query" =>
           /\ last.hosted_calls = 0
           /\ last.searches >= 1
           /\ last.path \in {"search", "error"}

C6_Witness ==
    /\ rag_system # None
    /\ rag_system.creds # Credentials
    /\ rag_system.creds # {}
    /\ env = Credentials
    /\ last.op = "query"
    /\ last.llmOk
    /\ last.path = "search"

\* The texts of the rows of the table the index was built from.
RowDocuments ==
    {Document(rag_system.table, rag_system.table.rows[i],
              FirstColumnWith(rag_system.table.columns, "NAICS Code"),
              FirstColumnWith(rag_system.table.columns, "NAICS Title")) :
        i \in 1..Len(rag_system.table.rows)}

ExpectedCount == IF last.k < IndexSize THEN last.k ELSE IndexSize

\* C10 as stated: similarity retrieval (get_similar_documents, and query
\* without a hosted model) returns exactly min(k, N) documents, each the
\* text of a row of the table the index was built from.
C10_ExactlyMinKN ==
    /\ last.op = "get_similar_documents" =>
         /\ Len(last.ret) = ExpectedCount
         /\ \A i \in 1..Len(last.ret) :
              /\ "content" \in DOMAIN last.ret[i]
              /\ last.ret[i].content \in RowDocuments
    /\ (last.op = "query" /\ ~rag_system.qa_chain) =>
         /\ Len(last.ret) = ExpectedCount
         /\ \A i \in 1..Len(last.ret) : last.ret[i] \in RowDocuments

\* C10 amended: the same, whenever the similarity search succeeds (for query
\* at its first attempt or at the retry of its except block).
C10_ExactlyMinKNWhenSearchSucceeds ==
    /\ (last.op = "get_similar_documents" /\ last.searchOk) =>
         /\ Len(last.ret) = ExpectedCount
         /\ \A i \in 1..Len(last.ret) :
              /\ "content" \in DOMAIN last.ret[i]
              /\ last.ret[i].content \in RowDocuments
    /\ (last.op = "query" /\ ~rag_system.qa_chain
          /\ (last.searchOk \/ last.retryOk)) =>
         /\ Len(last.ret) = ExpectedCount
         /\ \A i \in 1..Len(last.ret) : last.ret[i] \in RowDocuments

\* Fewer texts than asked for: all of them are returned.
C10_Witness ==
    /\ last.op = "get_similar_documents"
    /\ last.searchOk
    /\ IndexSize = 2
    /\ last.k = 3
    /\ Len(last.ret) = 2
    /\ last.ret[1].content # last.ret[2].content

\* C11: a query that the hosted model answers calls the model exactly once,
\* with the question and the k texts nearest to it for the caller's k as its
\* context, and returns the one generated answer as a one-element list.
C11_HostedAnswerFromCallersTopK ==
    (last.op = "query" /\ last.path = "hosted") =>
      /\ last.hosted_calls = 1
      /\ Len(last.ret) = 1
      /\ last.ret[1] = Answer(Question, Nearest(last.k))

(***************************************************************************)
(* Properties of the application session (checked under Spec)              *)
(***************************************************************************)

\* C4: once a dataset has been uploaded and loaded, a question can be asked
\* and is answered: through the hosted model with the three credentials,
\* by similarity search without them (stated for the runs in which no
\* external call fails).
C4_QuestionAnswerableAfterUpload ==
    (last.op = "run" /\ last.page = "Query System" /\ last.loaded /\ ~last.faults) =>
      /\ rag_system # None
      /\ last.shown \in {"form", "response"}
      /\ last.shown = "response" =>
           last.path = (IF Credentials \subseteq env THEN "hosted" ELSE "search")

\* C5: whenever the session holds an index, it was built from the table the
\* session holds now.
C5_IndexMatchesTable ==
    rag_system # None =>
      /\ df # None
      /\ rag_system.vector_store.docs = Documents(Self)

====
